---- MODULE Spec2Model ----
(***************************************************************************)
(* Debounce filter (v1.1 and v1.0) and edge detector (v2 and legacy) of    *)
(* the C-Library repository, as state machines driven by a caller's        *)
(* sampling loop.  One behaviour exercises one translation unit (the two   *)
(* iterations of each component define the same symbols and cannot be      *)
(* linked together); the unit is fixed by `unit'.                          *)
(***************************************************************************)
EXTENDS Integers, Sequences, FiniteSets

VARIABLES
    unit,    \* which translation unit this behaviour drives
    d,       \* the Debounce instance: prev_input, stable_output, time_ref
    dstart,  \* the Debounce instance as the last debounce_init left it
    dhist,   \* debounce_update calls since the last debounce_init
    dcall,   \* the last debounce call: its arguments, pre-state and result
    det,     \* the v2 EdgeDetector instance
    ehist,   \* edge_update steps since the last edge_init
    emark,   \* the call that last zeroed the counters: edge_init or edge_reset,
             \* the length of ehist and prev at that time, and prev at init
    ecall,   \* the last edge detector call
    leg,     \* the legacy EdgeDetector instance (prev only)
    lcall,   \* the last legacy edge detector call
    lhist,   \* the legacy edge_rise / edge_fall / edge_both calls since edge_init
    tw,      \* a second set of instances, driven with zero-equivalent inputs
    ncall,   \* the last call made with a NULL instance pointer; `same' tells
             \* whether it left all instances as they were
    rcall    \* the last edge_update call whose callback called edge_update again

vars == <<unit, d, dstart, dhist, dcall, det, ehist, emark, ecall, leg, lcall, lhist,
          tw, ncall, rcall>>
dvars == <<d, dstart, dhist, dcall>>
evars == <<det, ehist, emark, ecall>>
lvars == <<leg, lcall, lhist>>

(* ------------------------------ bounds -------------------------------- *)
MaxDebounceCalls == 4
MaxEdgeCalls == 6
\* calls per initialization when two instances are driven side by side
MaxTwinCalls == 3
\* legacy edge_rise / edge_fall / edge_both calls per edge_init
MaxLegacyCalls == 4
\* samples per initialization when calls with a NULL pointer are interleaved
MaxNullCalls == 2
\* how far below 2^32 - 1 the counters of a long-running detector start
WrapMargin == 2
\* how deep the on_edge callback calls edge_update again
MaxReentry == 1
\* samples per edge_init when the callback re-enters
MaxReentrantCalls == 2

(* --------------------------- input domains ---------------------------- *)
\* uint8_t samples handed to the operations: 0, 1 and other nonzero values
RawInputs == {0, 1, 2, 5}
\* what a user time_ref() may return (uint8_t; any nonzero value is "ready")
TimeRefReturns == {0, 1, 2}
\* the time_ref field: no function, or a user function
TimeRefs == {"NULL", "fn"}
\* the on_edge field: no callback, or a user callback
Callbacks == {"NULL", "fn"}
Units == {"debounce_v11", "debounce_v10", "edge_v2", "edge_legacy"}

\* the histories record each sample by whether it is zero: 0 for a zero
\* sample, 1 for any other (the specification's normalization, stated apart
\* from the code's own)
Normalized(x) == IF x = 0 THEN 0 ELSE 1

(* ------------------------------ EdgeType ------------------------------ *)
EDGE_NONE == 0
EDGE_RISING == 1
EDGE_FALLING == 2
EDGE_BOTH == 3

(* ------------------------------ uint32_t ------------------------------ *)
\* rise_count and fall_count are uint32_t.  TLC's integers are 32-bit signed,
\* so a uint32_t is held as its two 16-bit halves: hi * 2^16 + lo.
HalfWord == 65536
U32(n) == [hi |-> (n \div HalfWord) % HalfWord, lo |-> n % HalfWord]
\* the largest uint32_t, 2^32 - 1
U32Max == [hi |-> HalfWord - 1, lo |-> HalfWord - 1]

\* a faulty c++: the counter saturates at 2^32 - 1
u32_inc_saturating(c) ==
    IF c = U32Max THEN c
    ELSE IF c.lo = HalfWord - 1
    THEN [hi |-> c.hi + 1, lo |-> 0]
    ELSE [hi |-> c.hi, lo |-> c.lo + 1]

\* c++ on a uint32_t: wraps from 2^32 - 1 to 0
u32_inc(c) ==
    IF c.lo = HalfWord - 1
    THEN [hi |-> (c.hi + 1) % HalfWord, lo |-> 0]
    ELSE [hi |-> c.hi, lo |-> c.lo + 1]

(* ======================= debounce, v1.1 and v1.0 ====================== *)
\* input = (input != 0)
debounce_norm(input) == IF input # 0 THEN 1 ELSE 0

\* v1.1: debounce_init(d, time_ref, initial_input)
debounce_init(time_ref, initial_input) ==
    [prev_input    |-> debounce_norm(initial_input),
     stable_output |-> debounce_norm(initial_input),
     time_ref      |-> time_ref]

\* v1.0: debounce_init(d, time_ref)
debounce_init_v10(time_ref) ==
    [prev_input |-> 0, stable_output |-> 0, time_ref |-> time_ref]

\* the time_ref() invocations of one call: none when the field is NULL,
\* else one, returning tick
time_ref_calls(dd, tick) == IF dd.time_ref = "NULL" THEN <<>> ELSE <<tick>>

\* a faulty _debounce_time_ready: no fallback for a NULL time_ref
debounce_time_ready_no_fallback(dd, tick) ==
    IF dd.time_ref = "NULL" THEN 0 ELSE tick

\* a faulty _debounce_time_ready: the sense of time_ref() is inverted
debounce_time_ready_inverted(dd, tick) ==
    IF dd.time_ref = "NULL" THEN 1 ELSE IF tick = 0 THEN 1 ELSE 0

\* a faulty _debounce_time_ready: the answer of time_ref() is ignored
debounce_time_ready_always(dd, tick) == 1

\* v1.1: _debounce_time_ready(d), time_ref() returning tick
debounce_time_ready(dd, tick) == IF dd.time_ref = "NULL" THEN 1 ELSE tick

\* a faulty debounce_update: a changed input is confirmed on the call that
\* first sees it, when time_ref() is ready
debounce_update_accept_on_change(dd, input, tick) ==
    LET cur == debounce_norm(input)
        nd  == IF debounce_time_ready(dd, tick) # 0
               THEN [dd EXCEPT !.prev_input = cur, !.stable_output = cur]
               ELSE [dd EXCEPT !.prev_input = cur]
    IN [d |-> nd, ret |-> nd.stable_output, tr |-> time_ref_calls(dd, tick)]

\* a faulty debounce_update: the changed branch does not store the new
\* prev_input
debounce_update_forgets_prev(dd, input, tick) ==
    LET cur == debounce_norm(input) IN
    IF cur # dd.prev_input
    THEN [d |-> dd, ret |-> dd.stable_output, tr |-> time_ref_calls(dd, tick)]
    ELSE LET nd == IF debounce_time_ready(dd, tick) # 0
                   THEN [dd EXCEPT !.stable_output = cur]
                   ELSE dd
         IN [d |-> nd, ret |-> nd.stable_output, tr |-> time_ref_calls(dd, tick)]

\* a faulty debounce_update: the held input is stored only while time_ref() is
\* ready, and the output drops to 0 otherwise
debounce_update_gates_output(dd, input, tick) ==
    LET cur == debounce_norm(input) IN
    IF cur # dd.prev_input
    THEN [d   |-> [dd EXCEPT !.prev_input = cur],
          ret |-> dd.stable_output,
          tr  |-> time_ref_calls(dd, tick)]
    ELSE LET nd == IF debounce_time_ready(dd, tick) # 0
                   THEN [dd EXCEPT !.stable_output = cur]
                   ELSE [dd EXCEPT !.stable_output = 0]
         IN [d |-> nd, ret |-> nd.stable_output, tr |-> time_ref_calls(dd, tick)]

\* v1.1: debounce_update(d, input); the result holds the new instance, the
\* returned value and the time_ref() invocations made
debounce_update(dd, input, tick) ==
    LET cur == debounce_norm(input) IN
    IF cur # dd.prev_input
    THEN [d   |-> [dd EXCEPT !.prev_input = cur],
          ret |-> dd.stable_output,
          tr  |-> time_ref_calls(dd, tick)]
    ELSE LET nd == IF debounce_time_ready(dd, tick) # 0
                   THEN [dd EXCEPT !.stable_output = cur]
                   ELSE dd
         IN [d |-> nd, ret |-> nd.stable_output, tr |-> time_ref_calls(dd, tick)]

\* a faulty v1.0 debounce_update: a NULL time_ref counts as ready, as in v1.1
debounce_update_v10_with_fallback(dd, input, tick) ==
    LET cur == debounce_norm(input) IN
    IF cur # dd.prev_input
    THEN [d   |-> [dd EXCEPT !.prev_input = cur],
          ret |-> dd.stable_output,
          tr  |-> time_ref_calls(dd, tick)]
    ELSE LET nd == IF dd.time_ref = "NULL" \/ tick # 0
                   THEN [dd EXCEPT !.stable_output = cur]
                   ELSE dd
         IN [d |-> nd, ret |-> nd.stable_output, tr |-> time_ref_calls(dd, tick)]

\* v1.0: debounce_update(d, input)
debounce_update_v10(dd, input, tick) ==
    LET cur == debounce_norm(input) IN
    IF cur # dd.prev_input
    THEN [d   |-> [dd EXCEPT !.prev_input = cur],
          ret |-> dd.stable_output,
          tr  |-> time_ref_calls(dd, tick)]
    ELSE LET nd == IF dd.time_ref # "NULL" /\ tick # 0
                   THEN [dd EXCEPT !.stable_output = cur]
                   ELSE dd
         IN [d |-> nd, ret |-> nd.stable_output, tr |-> time_ref_calls(dd, tick)]

\* the values time_ref() can return for this instance (one placeholder when
\* there is no function to call)
Ticks(dd) == IF dd.time_ref = "NULL" THEN {0} ELSE TimeRefReturns

NoDebounce == [prev_input |-> 0, stable_output |-> 0, time_ref |-> "NULL"]

DebounceInitCall(nd, input) ==
    /\ d' = nd
    /\ dstart' = nd
    /\ dhist' = <<>>
    /\ dcall' = [op |-> "debounce_init", in |-> input, pre |-> d,
                 tr |-> <<>>, ret |-> 0]

DebounceUpdateCall(r, input) ==
    /\ d' = r.d
    /\ dhist' = Append(dhist, [cur |-> Normalized(input), tr |-> r.tr,
                               ret |-> r.ret])
    /\ dcall' = [op |-> "debounce_update", in |-> input, pre |-> d,
                 tr |-> r.tr, ret |-> r.ret]
    /\ UNCHANGED dstart

DebounceInitStep(t, x) ==
    /\ unit = "debounce_v11"
    /\ DebounceInitCall(debounce_init(t, x), x)
    /\ UNCHANGED <<unit, ncall, rcall, evars, lvars>>

DebounceUpdateStep(x, tick) ==
    /\ unit = "debounce_v11"
    /\ Len(dhist) < MaxDebounceCalls
    /\ DebounceUpdateCall(debounce_update(d, x, tick), x)
    /\ UNCHANGED <<unit, ncall, rcall, evars, lvars>>

DebounceInitV10Step(t) ==
    /\ unit = "debounce_v10"
    /\ DebounceInitCall(debounce_init_v10(t), 0)
    /\ UNCHANGED <<unit, ncall, rcall, evars, lvars>>

DebounceUpdateV10Step(x, tick) ==
    /\ unit = "debounce_v10"
    /\ Len(dhist) < MaxDebounceCalls
    /\ DebounceUpdateCall(debounce_update_v10(d, x, tick), x)
    /\ UNCHANGED <<unit, ncall, rcall, evars, lvars>>

DebounceInit ==
    \E t \in TimeRefs, x \in RawInputs : DebounceInitStep(t, x) /\ UNCHANGED tw

DebounceUpdate ==
    \E x \in RawInputs, tick \in Ticks(d) :
        DebounceUpdateStep(x, tick) /\ UNCHANGED tw

DebounceInitV10 ==
    \E t \in TimeRefs : DebounceInitV10Step(t) /\ UNCHANGED tw

DebounceUpdateV10 ==
    \E x \in RawInputs, tick \in Ticks(d) :
        DebounceUpdateV10Step(x, tick) /\ UNCHANGED tw

(* ========================== edge detector, v2 ========================= *)
\* a faulty norm01: x & 1u, the low bit instead of the test against zero
norm01_low_bit(x) == x % 2

\* norm01(x)
norm01(x) == IF x # 0 THEN 1 ELSE 0

\* edge_init(det, initial_state)
edge_init(initial_state) ==
    [prev |-> norm01(initial_state), rise_count |-> U32(0), fall_count |-> U32(0),
     on_edge |-> "NULL"]

\* _edge_invoke_callback(det, type): the on_edge invocations it makes
edge_invoke_callback(dt, type) ==
    IF dt.on_edge # "NULL" THEN <<type>> ELSE <<>>

\* a faulty edge_update: a high sample counts as a rising edge whatever
\* prev holds
edge_update_level(dt, input) ==
    LET current == norm01(input) IN
    IF current = 1
    THEN [det |-> [dt EXCEPT !.rise_count = u32_inc(@), !.prev = current],
          ret |-> EDGE_RISING,
          cbs |-> edge_invoke_callback(dt, EDGE_RISING)]
    ELSE IF dt.prev = 1 /\ current = 0
    THEN [det |-> [dt EXCEPT !.fall_count = u32_inc(@), !.prev = current],
          ret |-> EDGE_FALLING,
          cbs |-> edge_invoke_callback(dt, EDGE_FALLING)]
    ELSE [det |-> [dt EXCEPT !.prev = current],
          ret |-> EDGE_NONE,
          cbs |-> <<>>]

\* a faulty edge_update: the falling branch increments rise_count
edge_update_counts_rise_on_fall(dt, input) ==
    LET current == norm01(input) IN
    IF dt.prev = 0 /\ current = 1
    THEN [det |-> [dt EXCEPT !.rise_count = u32_inc(@), !.prev = current],
          ret |-> EDGE_RISING,
          cbs |-> edge_invoke_callback(dt, EDGE_RISING)]
    ELSE IF dt.prev = 1 /\ current = 0
    THEN [det |-> [dt EXCEPT !.rise_count = u32_inc(@), !.prev = current],
          ret |-> EDGE_FALLING,
          cbs |-> edge_invoke_callback(dt, EDGE_FALLING)]
    ELSE [det |-> [dt EXCEPT !.prev = current],
          ret |-> EDGE_NONE,
          cbs |-> <<>>]

\* a faulty edge_update: the falling branch does not invoke the callback
edge_update_silent_fall(dt, input) ==
    LET current == norm01(input) IN
    IF dt.prev = 0 /\ current = 1
    THEN [det |-> [dt EXCEPT !.rise_count = u32_inc(@), !.prev = current],
          ret |-> EDGE_RISING,
          cbs |-> edge_invoke_callback(dt, EDGE_RISING)]
    ELSE IF dt.prev = 1 /\ current = 0
    THEN [det |-> [dt EXCEPT !.fall_count = u32_inc(@), !.prev = current],
          ret |-> EDGE_FALLING,
          cbs |-> <<>>]
    ELSE [det |-> [dt EXCEPT !.prev = current],
          ret |-> EDGE_NONE,
          cbs |-> <<>>]

\* a faulty edge_update: det->prev is written only when no edge is detected
edge_update_stale_prev(dt, input) ==
    LET current == norm01(input) IN
    IF dt.prev = 0 /\ current = 1
    THEN [det |-> [dt EXCEPT !.rise_count = u32_inc(@)],
          ret |-> EDGE_RISING,
          cbs |-> edge_invoke_callback(dt, EDGE_RISING)]
    ELSE IF dt.prev = 1 /\ current = 0
    THEN [det |-> [dt EXCEPT !.fall_count = u32_inc(@)],
          ret |-> EDGE_FALLING,
          cbs |-> edge_invoke_callback(dt, EDGE_FALLING)]
    ELSE [det |-> [dt EXCEPT !.prev = current],
          ret |-> EDGE_NONE,
          cbs |-> <<>>]

\* edge_update(det, input): the new instance, the returned EdgeType and the
\* on_edge invocations made before det->prev is written
edge_update(dt, input) ==
    LET current == norm01(input) IN
    IF dt.prev = 0 /\ current = 1
    THEN [det |-> [dt EXCEPT !.rise_count = u32_inc(@),
                             !.prev = current],
          ret |-> EDGE_RISING,
          cbs |-> edge_invoke_callback(dt, EDGE_RISING)]
    ELSE IF dt.prev = 1 /\ current = 0
    THEN [det |-> [dt EXCEPT !.fall_count = u32_inc(@),
                             !.prev = current],
          ret |-> EDGE_FALLING,
          cbs |-> edge_invoke_callback(dt, EDGE_FALLING)]
    ELSE [det |-> [dt EXCEPT !.prev = current],
          ret |-> EDGE_NONE,
          cbs |-> <<>>]

\* a faulty edge_both: edge_update(det, input) == EDGE_RISING ||
\* edge_update(det, input) == EDGE_FALLING, which steps the detector twice
\* unless the first step is a rising edge
edge_both_steps_twice(dt, input) ==
    LET r1 == edge_update(dt, input)
        r2 == edge_update(r1.det, input)
    IN IF r1.ret = EDGE_RISING
       THEN [det |-> r1.det, ret |-> 1, cbs |-> r1.cbs]
       ELSE [det |-> r2.det,
             ret |-> IF r2.ret = EDGE_FALLING THEN 1 ELSE 0,
             cbs |-> r1.cbs \o r2.cbs]

\* edge_both(det, input)
edge_both(dt, input) ==
    LET r == edge_update(dt, input) IN
    [det |-> r.det,
     ret |-> IF r.ret # EDGE_NONE THEN 1 ELSE 0,
     cbs |-> r.cbs]

\* a faulty edge_reset: re-initializes the detector, prev included
edge_reset_clears_prev(dt) ==
    [dt EXCEPT !.rise_count = U32(0), !.fall_count = U32(0), !.prev = 0]

\* edge_reset(det)
edge_reset(dt) == [dt EXCEPT !.rise_count = U32(0), !.fall_count = U32(0)]

\* edge_get_rise_count(det), edge_get_fall_count(det)
edge_get_rise_count(dt) == dt.rise_count
edge_get_fall_count(dt) == dt.fall_count

\* det->on_edge = cb, the caller's assignment to the public field
assign_on_edge(dt, cb) == [dt EXCEPT !.on_edge = cb]

NoEdge ==
    [prev |-> 0, rise_count |-> U32(0), fall_count |-> U32(0),
     on_edge |-> "NULL"]

\* one sample fed through edge_update (directly or inside edge_both): type is
\* the EdgeType edge_update returned for it
EdgeSampleCall(op, r, type, input) ==
    /\ det' = r.det
    /\ ehist' = Append(ehist, [cur |-> Normalized(input), type |-> type])
    /\ ecall' = [op |-> op, in |-> input, pre |-> det, ret |-> r.ret,
                 cbs |-> r.cbs]
    /\ UNCHANGED emark

EdgeInitStep(x) ==
    /\ unit = "edge_v2"
    /\ det' = edge_init(x)
    /\ ehist' = <<>>
    /\ emark' = [by |-> "edge_init", at |-> 0, prev |-> edge_init(x).prev,
                 init |-> edge_init(x).prev]
    /\ ecall' = [op |-> "edge_init", in |-> x, pre |-> det, ret |-> 0,
                 cbs |-> <<>>]
    /\ UNCHANGED <<unit, ncall, rcall, dvars, lvars>>

EdgeUpdateStep(x) ==
    /\ unit = "edge_v2"
    /\ Len(ehist) < MaxEdgeCalls
    /\ EdgeSampleCall("edge_update", edge_update(det, x),
                      edge_update(det, x).ret, x)
    /\ UNCHANGED <<unit, ncall, rcall, dvars, lvars>>

EdgeBothStep(x) ==
    /\ unit = "edge_v2"
    /\ Len(ehist) < MaxEdgeCalls
    /\ EdgeSampleCall("edge_both", edge_both(det, x),
                      edge_update(det, x).ret, x)
    /\ UNCHANGED <<unit, ncall, rcall, dvars, lvars>>

EdgeResetStep ==
    /\ unit = "edge_v2"
    /\ det' = edge_reset(det)
    /\ emark' = [by |-> "edge_reset", at |-> Len(ehist), prev |-> det.prev,
                 init |-> emark.init]
    /\ ecall' = [op |-> "edge_reset", in |-> 0, pre |-> det, ret |-> 0,
                 cbs |-> <<>>]
    /\ UNCHANGED <<unit, ncall, rcall, ehist, dvars, lvars>>

EdgeGetRiseCountStep ==
    /\ unit = "edge_v2"
    /\ ecall' = [op |-> "edge_get_rise_count", in |-> 0, pre |-> det,
                 ret |-> edge_get_rise_count(det), cbs |-> <<>>]
    /\ UNCHANGED <<unit, ncall, rcall, det, ehist, emark, dvars, lvars>>

EdgeGetFallCountStep ==
    /\ unit = "edge_v2"
    /\ ecall' = [op |-> "edge_get_fall_count", in |-> 0, pre |-> det,
                 ret |-> edge_get_fall_count(det), cbs |-> <<>>]
    /\ UNCHANGED <<unit, ncall, rcall, det, ehist, emark, dvars, lvars>>

AssignOnEdgeStep(cb) ==
    /\ unit = "edge_v2"
    /\ det' = assign_on_edge(det, cb)
    /\ ecall' = [op |-> "assign_on_edge", in |-> 0, pre |-> det, ret |-> 0,
                 cbs |-> <<>>]
    /\ UNCHANGED <<unit, ncall, rcall, ehist, emark, dvars, lvars>>

EdgeInit == \E x \in RawInputs : EdgeInitStep(x) /\ UNCHANGED tw
EdgeUpdate == \E x \in RawInputs : EdgeUpdateStep(x) /\ UNCHANGED tw
EdgeBoth == \E x \in RawInputs : EdgeBothStep(x) /\ UNCHANGED tw
EdgeReset == EdgeResetStep /\ UNCHANGED tw
EdgeGetRiseCount == EdgeGetRiseCountStep /\ UNCHANGED tw
EdgeGetFallCount == EdgeGetFallCountStep /\ UNCHANGED tw
AssignOnEdge == \E cb \in Callbacks : AssignOnEdgeStep(cb) /\ UNCHANGED tw

(* ======================== edge detector, legacy ======================= *)
\* edge_init(det, initial_state)
legacy_edge_init(initial_state) == [prev |-> norm01(initial_state)]

\* a faulty edge_rise: prev is stored only when a rising edge is reported
legacy_edge_rise_keeps_prev(lg, in) ==
    LET current == norm01(in) IN
    IF current # 0 /\ lg.prev = 0
    THEN [leg |-> [lg EXCEPT !.prev = current], ret |-> 1]
    ELSE [leg |-> lg, ret |-> 0]

\* edge_rise(det, in)
legacy_edge_rise(lg, in) ==
    LET current == norm01(in) IN
    [leg |-> [lg EXCEPT !.prev = current],
     ret |-> IF current # 0 /\ lg.prev = 0 THEN 1 ELSE 0]

\* edge_fall(det, in)
legacy_edge_fall(lg, in) ==
    LET current == norm01(in) IN
    [leg |-> [lg EXCEPT !.prev = current],
     ret |-> IF lg.prev = 1 /\ current = 0 THEN 1 ELSE 0]

\* edge_both(det, in)
legacy_edge_both(lg, in) ==
    LET current == norm01(in) IN
    [leg |-> [lg EXCEPT !.prev = current],
     ret |-> IF current # lg.prev THEN 1 ELSE 0]

NoLegacy == [prev |-> 0]

LegacyCall(op, r, input) ==
    /\ unit = "edge_legacy"
    /\ leg' = r.leg
    /\ lcall' = [op |-> op, in |-> input, pre |-> leg, ret |-> r.ret]
    /\ lhist' = IF op = "edge_init" THEN <<>>
                ELSE Append(lhist, [op |-> op, cur |-> Normalized(input),
                                    pre |-> leg.prev, ret |-> r.ret])
    /\ UNCHANGED <<unit, ncall, rcall, dvars, evars>>

LegacyInitStep(x) ==
    LegacyCall("edge_init", [leg |-> legacy_edge_init(x), ret |-> 0], x)
LegacyRiseStep(x) ==
    /\ Len(lhist) < MaxLegacyCalls
    /\ LegacyCall("edge_rise", legacy_edge_rise(leg, x), x)
LegacyFallStep(x) ==
    /\ Len(lhist) < MaxLegacyCalls
    /\ LegacyCall("edge_fall", legacy_edge_fall(leg, x), x)
LegacyBothStep(x) ==
    /\ Len(lhist) < MaxLegacyCalls
    /\ LegacyCall("edge_both", legacy_edge_both(leg, x), x)

LegacyInit == \E x \in RawInputs : LegacyInitStep(x) /\ UNCHANGED tw
LegacyRise == \E x \in RawInputs : LegacyRiseStep(x) /\ UNCHANGED tw
LegacyFall == \E x \in RawInputs : LegacyFallStep(x) /\ UNCHANGED tw
LegacyBoth == \E x \in RawInputs : LegacyBothStep(x) /\ UNCHANGED tw

(* ============================ specification ============================ *)
\* two samples that agree on being zero
SameZero(x, y) == (x = 0) <=> (y = 0)

\* the second set of instances, constructed with the sample y
TwinInit(u, t, y) ==
    [d   |-> IF u = "debounce_v11" THEN debounce_init(t, y)
             ELSE IF u = "debounce_v10" THEN debounce_init_v10(t)
             ELSE NoDebounce,
     det |-> IF u = "edge_v2" THEN edge_init(y) ELSE NoEdge,
     leg |-> IF u = "edge_legacy" THEN legacy_edge_init(y) ELSE NoLegacy,
     in  |-> y, ret |-> 0, tr |-> <<>>, cbs |-> <<>>]

\* every instance as its init operation leaves it
Init ==
    /\ unit \in Units
    /\ \E t \in TimeRefs, x \in RawInputs :
          /\ unit \notin {"debounce_v11", "debounce_v10"} => (t = "NULL")
          /\ unit = "debounce_v10" => (x = 0)
          /\ d = (IF unit = "debounce_v11" THEN debounce_init(t, x)
                  ELSE IF unit = "debounce_v10" THEN debounce_init_v10(t)
                  ELSE NoDebounce)
          /\ dstart = d
          /\ det = (IF unit = "edge_v2" THEN edge_init(x) ELSE NoEdge)
          /\ emark = [by |-> "edge_init", at |-> 0, prev |-> det.prev,
                      init |-> det.prev]
          /\ leg = (IF unit = "edge_legacy" THEN legacy_edge_init(x) ELSE NoLegacy)
          /\ tw = TwinInit(unit, t, x)
          /\ dcall = [op |-> "none", in |-> x, pre |-> d, tr |-> <<>>, ret |-> 0]
          /\ ecall = [op |-> "none", in |-> x, pre |-> det, ret |-> 0,
                      cbs |-> <<>>]
          /\ lcall = [op |-> "none", in |-> x, pre |-> leg, ret |-> 0]
    /\ dhist = <<>>
    /\ ehist = <<>>
    /\ lhist = <<>>
    /\ ncall = [op |-> "none", ret |-> 0, same |-> TRUE, inv |-> <<>>]
    /\ rcall = [op |-> "none", in |-> 0, plan |-> <<>>, pre |-> det, ret |-> 0,
                calls |-> <<>>]

Next ==
    \/ DebounceInit
    \/ DebounceUpdate
    \/ DebounceInitV10
    \/ DebounceUpdateV10
    \/ EdgeInit
    \/ EdgeUpdate
    \/ EdgeBoth
    \/ EdgeReset
    \/ EdgeGetRiseCount
    \/ EdgeGetFallCount
    \/ AssignOnEdge
    \/ LegacyInit
    \/ LegacyRise
    \/ LegacyFall
    \/ LegacyBoth

Spec == Init /\ [][Next]_vars

(* ------------- an on_edge callback that calls edge_update -------------- *)
\* on_edge is user code and may call edge_update on the instance that is
\* invoking it.  A plan is what the callback does at each nesting depth: at
\* depth i it calls edge_update(det, plan[i]), and beyond Len(plan) it returns
\* without calling the library.  (A callback that re-enters without end never
\* returns.)
RECURSIVE PlansUpTo(_)
PlansUpTo(n) ==
    IF n = 0 THEN {<<>>}
    ELSE PlansUpTo(n - 1) \union
         {<<x>> \o q : x \in RawInputs, q \in {r \in PlansUpTo(n - 1) : Len(r) = n - 1}}

Plans == PlansUpTo(MaxReentry)

\* the EdgeType edge_update detects on the instance dt for the sample current
DetectedType(dt, current) ==
    IF dt.prev = 0 /\ current = 1 THEN EDGE_RISING
    ELSE IF dt.prev = 1 /\ current = 0 THEN EDGE_FALLING
    ELSE EDGE_NONE

\* det->rise_count++ / det->fall_count++ for the detected type
Counted(dt, type) ==
    IF type = EDGE_RISING THEN [dt EXCEPT !.rise_count = u32_inc(@)]
    ELSE IF type = EDGE_FALLING THEN [dt EXCEPT !.fall_count = u32_inc(@)]
    ELSE dt

\* a faulty edge_update: det->prev is written before the callback is invoked
RECURSIVE edge_update_re_prev_first(_, _, _)
edge_update_re_prev_first(dt, input, plan) ==
    LET current == norm01(input)
        type    == DetectedType(dt, current)
        counted == [Counted(dt, type) EXCEPT !.prev = current]
        invoked == type # EDGE_NONE /\ dt.on_edge # "NULL"
        nested  == IF invoked /\ plan # <<>>
                   THEN edge_update_re_prev_first(counted, Head(plan), Tail(plan))
                   ELSE [det |-> counted, ret |-> EDGE_NONE, calls |-> <<>>]
    IN [det   |-> nested.det,
        ret   |-> type,
        calls |-> IF invoked
                  THEN <<[type |-> type, seen |-> counted,
                          reentered |-> plan # <<>>, inner |-> nested.ret]>>
                       \o nested.calls
                  ELSE <<>>]

\* edge_update(det, input) with the callback following plan: the counter is
\* incremented, then on_edge is invoked (seeing the instance as `seen', and
\* possibly calling edge_update, which returns `inner'), and det->prev is
\* written after it returns.  calls lists the on_edge invocations in the order
\* they start.
RECURSIVE edge_update_re(_, _, _)
edge_update_re(dt, input, plan) ==
    LET current == norm01(input)
        type    == DetectedType(dt, current)
        counted == Counted(dt, type)
        invoked == type # EDGE_NONE /\ dt.on_edge # "NULL"
        nested  == IF invoked /\ plan # <<>>
                   THEN edge_update_re(counted, Head(plan), Tail(plan))
                   ELSE [det |-> counted, ret |-> EDGE_NONE, calls |-> <<>>]
    IN [det   |-> [nested.det EXCEPT !.prev = current],
        ret   |-> type,
        calls |-> IF invoked
                  THEN <<[type |-> type, seen |-> counted,
                          reentered |-> plan # <<>>, inner |-> nested.ret]>>
                       \o nested.calls
                  ELSE <<>>]

\* the EdgeTypes of a sequence of on_edge invocations
RECURSIVE CallTypes(_)
CallTypes(calls) ==
    IF calls = <<>> THEN <<>>
    ELSE <<Head(calls).type>> \o CallTypes(Tail(calls))

EdgeUpdateReentrantStep(x, plan) ==
    /\ unit = "edge_v2"
    /\ Len(ehist) < MaxReentrantCalls
    /\ LET r == edge_update_re(det, x, plan)
       IN /\ EdgeSampleCall("edge_update",
                            [det |-> r.det, ret |-> r.ret,
                             cbs |-> CallTypes(r.calls)],
                            r.ret, x)
          /\ rcall' = [op |-> "edge_update", in |-> x, plan |-> plan,
                       pre |-> det, ret |-> r.ret, calls |-> r.calls]
    /\ UNCHANGED <<unit, ncall, dvars, lvars>>

EdgeUpdateReentrant ==
    \E x \in RawInputs, plan \in Plans :
        EdgeUpdateReentrantStep(x, plan) /\ UNCHANGED tw

InitReenter == Init /\ unit = "edge_v2"

NextReenter ==
    \/ EdgeUpdateReentrant
    \/ AssignOnEdge

SpecReenter == InitReenter /\ [][NextReenter]_vars

(* ------------------- calls with a NULL instance pointer ---------------- *)
\* Every operation starts with `if (!d) return ...;'.  The operators below are
\* the operations as entered with the pointer p: "NULL", or "inst" for the
\* address of the caller's instance, whose value is the second argument.
Pointers == {"NULL", "inst"}

debounce_init_ptr(p, dd, time_ref, initial_input) ==
    IF p = "NULL"
    THEN [d |-> dd, ret |-> "void", tr |-> <<>>]
    ELSE [d |-> debounce_init(time_ref, initial_input), ret |-> "void",
          tr |-> <<>>]

\* a faulty debounce_update: a NULL instance is reported with an error value
debounce_update_ptr_reports_error(p, dd, input, tick) ==
    IF p = "NULL"
    THEN [d |-> dd, ret |-> 255, tr |-> <<>>]
    ELSE debounce_update(dd, input, tick)

debounce_update_ptr(p, dd, input, tick) ==
    IF p = "NULL"
    THEN [d |-> dd, ret |-> 0, tr |-> <<>>]
    ELSE debounce_update(dd, input, tick)

debounce_init_v10_ptr(p, dd, time_ref) ==
    IF p = "NULL"
    THEN [d |-> dd, ret |-> "void", tr |-> <<>>]
    ELSE [d |-> debounce_init_v10(time_ref), ret |-> "void", tr |-> <<>>]

debounce_update_v10_ptr(p, dd, input, tick) ==
    IF p = "NULL"
    THEN [d |-> dd, ret |-> 0, tr |-> <<>>]
    ELSE debounce_update_v10(dd, input, tick)

edge_init_ptr(p, dt, initial_state) ==
    IF p = "NULL"
    THEN [det |-> dt, ret |-> "void", cbs |-> <<>>]
    ELSE [det |-> edge_init(initial_state), ret |-> "void", cbs |-> <<>>]

edge_update_ptr(p, dt, input) ==
    IF p = "NULL"
    THEN [det |-> dt, ret |-> EDGE_NONE, cbs |-> <<>>]
    ELSE edge_update(dt, input)

\* edge_both tests the pointer itself before it calls edge_update
edge_both_ptr(p, dt, input) ==
    IF p = "NULL"
    THEN [det |-> dt, ret |-> 0, cbs |-> <<>>]
    ELSE edge_both(dt, input)

edge_reset_ptr(p, dt) ==
    IF p = "NULL"
    THEN [det |-> dt, ret |-> "void", cbs |-> <<>>]
    ELSE [det |-> edge_reset(dt), ret |-> "void", cbs |-> <<>>]

edge_get_rise_count_ptr(p, dt) ==
    [det |-> dt,
     ret |-> IF p = "NULL" THEN U32(0) ELSE edge_get_rise_count(dt),
     cbs |-> <<>>]

edge_get_fall_count_ptr(p, dt) ==
    [det |-> dt,
     ret |-> IF p = "NULL" THEN U32(0) ELSE edge_get_fall_count(dt),
     cbs |-> <<>>]

legacy_edge_init_ptr(p, lg, initial_state) ==
    IF p = "NULL"
    THEN [leg |-> lg, ret |-> "void"]
    ELSE [leg |-> legacy_edge_init(initial_state), ret |-> "void"]

legacy_edge_rise_ptr(p, lg, in) ==
    IF p = "NULL" THEN [leg |-> lg, ret |-> 0] ELSE legacy_edge_rise(lg, in)

legacy_edge_fall_ptr(p, lg, in) ==
    IF p = "NULL" THEN [leg |-> lg, ret |-> 0] ELSE legacy_edge_fall(lg, in)

legacy_edge_both_ptr(p, lg, in) ==
    IF p = "NULL" THEN [leg |-> lg, ret |-> 0] ELSE legacy_edge_both(lg, in)

DebounceOps == {"debounce_init", "debounce_update"}
EdgeOps ==
    {"edge_init", "edge_update", "edge_both", "edge_reset",
     "edge_get_rise_count", "edge_get_fall_count"}
LegacyOps == {"edge_init", "edge_rise", "edge_fall", "edge_both"}

\* a debounce operation (of the unit's version) called with d == NULL
DebounceNullCall ==
    /\ unit \in {"debounce_v11", "debounce_v10"}
    /\ \E op \in DebounceOps, t \in TimeRefs, x \in RawInputs, tick \in Ticks(d) :
          LET r == IF unit = "debounce_v11"
                   THEN IF op = "debounce_init"
                        THEN debounce_init_ptr("NULL", d, t, x)
                        ELSE debounce_update_ptr("NULL", d, x, tick)
                   ELSE IF op = "debounce_init"
                        THEN debounce_init_v10_ptr("NULL", d, t)
                        ELSE debounce_update_v10_ptr("NULL", d, x, tick)
          IN /\ d' = r.d
             /\ ncall' = [op |-> op, ret |-> r.ret,
                          same |-> <<r.d, det, leg>> = <<d, det, leg>>,
                          inv |-> r.tr]
    /\ UNCHANGED <<unit, rcall, dstart, dhist, dcall, evars, lvars, tw>>

\* a v2 edge detector operation called with det == NULL
EdgeNullCall ==
    /\ unit = "edge_v2"
    /\ \E op \in EdgeOps, x \in RawInputs :
          LET r == CASE op = "edge_init" -> edge_init_ptr("NULL", det, x)
                     [] op = "edge_update" -> edge_update_ptr("NULL", det, x)
                     [] op = "edge_both" -> edge_both_ptr("NULL", det, x)
                     [] op = "edge_reset" -> edge_reset_ptr("NULL", det)
                     [] op = "edge_get_rise_count" ->
                            edge_get_rise_count_ptr("NULL", det)
                     [] op = "edge_get_fall_count" ->
                            edge_get_fall_count_ptr("NULL", det)
          IN /\ det' = r.det
             /\ ncall' = [op |-> op, ret |-> r.ret,
                          same |-> <<d, r.det, leg>> = <<d, det, leg>>,
                          inv |-> r.cbs]
    /\ UNCHANGED <<unit, rcall, ehist, emark, ecall, dvars, lvars, tw>>

\* a legacy edge detector operation called with det == NULL
LegacyNullCall ==
    /\ unit = "edge_legacy"
    /\ \E op \in LegacyOps, x \in RawInputs :
          LET r == CASE op = "edge_init" -> legacy_edge_init_ptr("NULL", leg, x)
                     [] op = "edge_rise" -> legacy_edge_rise_ptr("NULL", leg, x)
                     [] op = "edge_fall" -> legacy_edge_fall_ptr("NULL", leg, x)
                     [] op = "edge_both" -> legacy_edge_both_ptr("NULL", leg, x)
          IN /\ leg' = r.leg
             /\ ncall' = [op |-> op, ret |-> r.ret,
                          same |-> <<d, det, r.leg>> = <<d, det, leg>>,
                          inv |-> <<>>]
    /\ UNCHANGED <<unit, rcall, lcall, lhist, dvars, evars, tw>>

\* the sampling loop, a few samples per initialization, with calls that pass
\* a NULL pointer in between
NextNull ==
    \/ DebounceNullCall
    \/ EdgeNullCall
    \/ LegacyNullCall
    \/ /\ Len(dhist) < MaxNullCalls
       /\ Len(ehist) < MaxNullCalls
       /\ Len(lhist) < MaxNullCalls
       /\ Next

SpecNull == Init /\ [][NextNull]_vars

(* ----------------- two instances driven side by side ------------------ *)
\* Each action below performs one operation on the instances above with the
\* sample x and the same operation on the second set of instances with a
\* sample y that agrees with x on being zero; time_ref() answers both alike.
TwinDebounceInit ==
    \E t \in TimeRefs, x \in RawInputs, y \in RawInputs :
        /\ SameZero(x, y)
        /\ DebounceInitStep(t, x)
        /\ tw' = [tw EXCEPT !.d = debounce_init(t, y), !.in = y, !.ret = 0,
                            !.tr = <<>>]

TwinDebounceUpdate ==
    \E x \in RawInputs, y \in RawInputs, tick \in Ticks(d) :
        /\ SameZero(x, y)
        /\ Len(dhist) < MaxTwinCalls
        /\ DebounceUpdateStep(x, tick)
        /\ LET r == debounce_update(tw.d, y, tick)
           IN tw' = [tw EXCEPT !.d = r.d, !.in = y, !.ret = r.ret, !.tr = r.tr]

TwinDebounceInitV10 ==
    \E t \in TimeRefs :
        /\ DebounceInitV10Step(t)
        /\ tw' = [tw EXCEPT !.d = debounce_init_v10(t), !.in = 0, !.ret = 0,
                            !.tr = <<>>]

TwinDebounceUpdateV10 ==
    \E x \in RawInputs, y \in RawInputs, tick \in Ticks(d) :
        /\ SameZero(x, y)
        /\ Len(dhist) < MaxTwinCalls
        /\ DebounceUpdateV10Step(x, tick)
        /\ LET r == debounce_update_v10(tw.d, y, tick)
           IN tw' = [tw EXCEPT !.d = r.d, !.in = y, !.ret = r.ret, !.tr = r.tr]

TwinEdgeInit ==
    \E x \in RawInputs, y \in RawInputs :
        /\ SameZero(x, y)
        /\ EdgeInitStep(x)
        /\ tw' = [tw EXCEPT !.det = edge_init(y), !.in = y, !.ret = 0,
                            !.cbs = <<>>]

TwinEdgeUpdate ==
    \E x \in RawInputs, y \in RawInputs :
        /\ SameZero(x, y)
        /\ Len(ehist) < MaxTwinCalls
        /\ EdgeUpdateStep(x)
        /\ LET r == edge_update(tw.det, y)
           IN tw' = [tw EXCEPT !.det = r.det, !.in = y, !.ret = r.ret,
                               !.cbs = r.cbs]

TwinEdgeBoth ==
    \E x \in RawInputs, y \in RawInputs :
        /\ SameZero(x, y)
        /\ Len(ehist) < MaxTwinCalls
        /\ EdgeBothStep(x)
        /\ LET r == edge_both(tw.det, y)
           IN tw' = [tw EXCEPT !.det = r.det, !.in = y, !.ret = r.ret,
                               !.cbs = r.cbs]

TwinEdgeReset ==
    /\ EdgeResetStep
    /\ tw' = [tw EXCEPT !.det = edge_reset(tw.det), !.in = 0, !.ret = 0,
                        !.cbs = <<>>]

TwinAssignOnEdge ==
    \E cb \in Callbacks :
        /\ AssignOnEdgeStep(cb)
        /\ tw' = [tw EXCEPT !.det = assign_on_edge(tw.det, cb), !.in = 0,
                            !.ret = 0, !.cbs = <<>>]

TwinLegacyInit ==
    \E x \in RawInputs, y \in RawInputs :
        /\ SameZero(x, y)
        /\ LegacyInitStep(x)
        /\ tw' = [tw EXCEPT !.leg = legacy_edge_init(y), !.in = y, !.ret = 0]

TwinLegacyRise ==
    \E x \in RawInputs, y \in RawInputs :
        /\ SameZero(x, y)
        /\ LegacyRiseStep(x)
        /\ LET r == legacy_edge_rise(tw.leg, y)
           IN tw' = [tw EXCEPT !.leg = r.leg, !.in = y, !.ret = r.ret]

TwinLegacyFall ==
    \E x \in RawInputs, y \in RawInputs :
        /\ SameZero(x, y)
        /\ LegacyFallStep(x)
        /\ LET r == legacy_edge_fall(tw.leg, y)
           IN tw' = [tw EXCEPT !.leg = r.leg, !.in = y, !.ret = r.ret]

TwinLegacyBoth ==
    \E x \in RawInputs, y \in RawInputs :
        /\ SameZero(x, y)
        /\ LegacyBothStep(x)
        /\ LET r == legacy_edge_both(tw.leg, y)
           IN tw' = [tw EXCEPT !.leg = r.leg, !.in = y, !.ret = r.ret]

NextNorm ==
    \/ TwinDebounceInit
    \/ TwinDebounceUpdate
    \/ TwinDebounceInitV10
    \/ TwinDebounceUpdateV10
    \/ TwinEdgeInit
    \/ TwinEdgeUpdate
    \/ TwinEdgeBoth
    \/ TwinEdgeReset
    \/ TwinAssignOnEdge
    \/ TwinLegacyInit
    \/ TwinLegacyRise
    \/ TwinLegacyFall
    \/ TwinLegacyBoth

SpecNorm == Init /\ [][NextNorm]_vars

(* =============================== claims =============================== *)
\* the debounce units
IsDebounce == unit \in {"debounce_v11", "debounce_v10"}

\* prev_input and stable_output before the k-th debounce_update since init
PrevInputBefore(k) == IF k = 1 THEN dstart.prev_input ELSE dhist[k - 1].cur
StableBefore(k) == IF k = 1 THEN dstart.stable_output ELSE dhist[k - 1].ret

\* time_ref is a function, and it answered ready (nonzero) every time it was
\* called since init
AlwaysReady ==
    /\ d.time_ref = "fn"
    /\ \A i \in 1..Len(dhist) :
          \A j \in 1..Len(dhist[i].tr) : dhist[i].tr[j] # 0

\* time_ref is a function, and it answered not ready (0) every time
NeverReady ==
    /\ d.time_ref = "fn"
    /\ \A i \in 1..Len(dhist) :
          \A j \in 1..Len(dhist[i].tr) : dhist[i].tr[j] = 0

\* C1: v1.1 debounce: stable_output changes value during a debounce_update
\* call only if the call's normalized input equals prev_input as the previous
\* call (or init) left it and time_ref, when there is one, returned nonzero
\* on that call; on a call whose normalized input differs from prev_input,
\* stable_output is unchanged and the call returns the old stable value.
C1_StableChangesOnlyWhenHeldAndReady ==
    (unit = "debounce_v11" /\ dcall.op = "debounce_update") =>
        LET k   == Len(dhist)
            cur == Normalized(dcall.in)
        IN /\ dcall.pre.prev_input = PrevInputBefore(k)
           /\ dcall.pre.stable_output = StableBefore(k)
           /\ d.stable_output # dcall.pre.stable_output =>
                 /\ cur = dcall.pre.prev_input
                 /\ dcall.pre.time_ref # "NULL" =>
                       (Len(dcall.tr) = 1 /\ dcall.tr[1] # 0)
           /\ cur # dcall.pre.prev_input =>
                 /\ d.stable_output = dcall.pre.stable_output
                 /\ dcall.ret = dcall.pre.stable_output

\* C1 witness: a call with a time_ref function on which the stable output
\* changed value.
C1_Witness ==
    /\ unit = "debounce_v11"
    /\ dcall.op = "debounce_update"
    /\ dcall.pre.time_ref = "fn"
    /\ d.stable_output # dcall.pre.stable_output

\* C2: v1.1 debounce with time_ref == NULL: a call whose normalized input
\* equals the previous call's normalized input (the init value for the first
\* call) returns that input, and a call whose normalized input differs returns
\* the previous stable value; after init with raw 0, Update(1), Update(1),
\* Update(0), Update(0) return 0, 1, 1, 0.
C2_NoPredicateLatch ==
    (unit = "debounce_v11" /\ d.time_ref = "NULL") =>
        /\ \A k \in 1..Len(dhist) :
              dhist[k].ret = IF dhist[k].cur = PrevInputBefore(k)
                             THEN dhist[k].cur
                             ELSE StableBefore(k)
        /\ dstart.prev_input = 0 =>
              \A k \in 1..Len(dhist) :
                  (k <= 4 /\ \A i \in 1..k : dhist[i].cur = <<1, 1, 0, 0>>[i])
                      => dhist[k].ret = <<0, 1, 1, 0>>[k]

\* C2 witness: init with raw 0 and no time_ref, then the four calls
\* Update(1), Update(1), Update(0), Update(0).
C2_Witness ==
    /\ unit = "debounce_v11"
    /\ d.time_ref = "NULL"
    /\ dstart.prev_input = 0
    /\ Len(dhist) = 4
    /\ \A i \in 1..4 : dhist[i].cur = <<1, 1, 0, 0>>[i]

\* a raw change is observed on the k-th call
ChangeOn(k) == dhist[k].cur # PrevInputBefore(k)

\* C3 as claimed: with a predicate that always returns true, a raw change
\* observed on call k is not reflected in the return value of call k (the call
\* does not return the new value), and call k+1 returns the value seen on call
\* k if and only if its normalized input equals that value.
C3_OneCallLatency_AsClaimed ==
    (IsDebounce /\ AlwaysReady) =>
        \A k \in 1..Len(dhist) :
            ChangeOn(k) =>
                /\ dhist[k].ret # dhist[k].cur
                /\ k < Len(dhist) =>
                      (dhist[k + 1].ret = dhist[k].cur
                           <=> dhist[k + 1].cur = dhist[k].cur)

\* C3 amended: with a predicate that always returns true, a call k that
\* observes a raw change returns the unchanged previous stable value, and call
\* k+1 returns the value seen on call k whenever its normalized input equals
\* that value and the unchanged stable value otherwise; when the value seen on
\* call k differs from the stable output before call k, call k does not return
\* it and call k+1 returns it if and only if its input equals it.
C3_OneCallLatency ==
    (IsDebounce /\ AlwaysReady) =>
        \A k \in 1..Len(dhist) :
            ChangeOn(k) =>
                /\ dhist[k].ret = StableBefore(k)
                /\ k < Len(dhist) =>
                      dhist[k + 1].ret = IF dhist[k + 1].cur = dhist[k].cur
                                         THEN dhist[k].cur
                                         ELSE StableBefore(k)
                /\ dhist[k].cur # StableBefore(k) =>
                      /\ dhist[k].ret # dhist[k].cur
                      /\ k < Len(dhist) =>
                            (dhist[k + 1].ret = dhist[k].cur
                                 <=> dhist[k + 1].cur = dhist[k].cur)

\* C3 witness: an always-ready predicate, a change away from the stable
\* output on one call, and the same input on the next call, which returns it.
C3_Witness ==
    /\ IsDebounce
    /\ AlwaysReady
    /\ Len(dhist) >= 2
    /\ LET k == Len(dhist) - 1
       IN /\ ChangeOn(k)
          /\ dhist[k].cur # StableBefore(k)
          /\ dhist[k + 1].cur = dhist[k].cur
          /\ dhist[k + 1].ret = dhist[k].cur

\* C4: with a predicate that always returns false, stable_output and every
\* value debounce_update returns equal the initial stable value, for every
\* raw input sequence.
C4_NeverReadyNeverChanges ==
    (IsDebounce /\ NeverReady) =>
        /\ d.stable_output = dstart.stable_output
        /\ \A k \in 1..Len(dhist) : dhist[k].ret = dstart.stable_output

\* C4 witness: a never-ready predicate, an input that changed and was then
\* held for two further calls.
C4_Witness ==
    /\ unit = "debounce_v11"
    /\ NeverReady
    /\ Len(dhist) >= 3
    /\ dhist[1].cur # dstart.prev_input
    /\ dhist[2].cur = dhist[1].cur
    /\ dhist[3].cur = dhist[1].cur
    /\ Len(dhist[3].tr) = 1

(* --------------------------- edge detector ---------------------------- *)
\* the classification of a step from the previous and the current sample
Classify(p, c) ==
    IF p = 0 /\ c = 1 THEN EDGE_RISING
    ELSE IF p = 1 /\ c = 0 THEN EDGE_FALLING
    ELSE EDGE_NONE

\* the number a counter holds (for counters below 2^31)
Val(c) == c.hi * HalfWord + c.lo

\* prev before the k-th sample since edge_init
PrevBefore(k) == IF k = 1 THEN emark.init ELSE ehist[k - 1].cur

\* the steps among from..to of ehist that classified as t
CountType(t, from, to) ==
    Cardinality({k \in from..to : ehist[k].type = t})

\* the last call fed a sample through edge_update
IsSampleCall == unit = "edge_v2" /\ ecall.op \in {"edge_update", "edge_both"}

\* the EdgeType edge_update returned for the last sample
LastType == ehist[Len(ehist)].type

\* C5: each edge_update call returns EDGE_RISING iff prev == 0 and the
\* normalized sample is 1, EDGE_FALLING iff prev == 1 and the normalized sample
\* is 0, and EDGE_NONE otherwise, never EDGE_BOTH, and leaves prev equal to the
\* normalized sample; the samples 0,0,1,1,0,1 after edge_init(0) yield
\* None, None, Rising, None, Falling, Rising with rise_count 2, fall_count 1.
C5_EdgeUpdateClassifies ==
    unit = "edge_v2" =>
        /\ ecall.op = "edge_update" =>
              LET cur == Normalized(ecall.in)
                  p   == ecall.pre.prev
              IN /\ ecall.ret = EDGE_RISING <=> (p = 0 /\ cur = 1)
                 /\ ecall.ret = EDGE_FALLING <=> (p = 1 /\ cur = 0)
                 /\ ecall.ret = EDGE_NONE <=> ~(p = 0 /\ cur = 1) /\ ~(p = 1 /\ cur = 0)
                 /\ ecall.ret \in {EDGE_NONE, EDGE_RISING, EDGE_FALLING}
                 /\ ecall.ret # EDGE_BOTH
                 /\ ecall.ret = LastType
                 /\ det.prev = cur
        /\ \A k \in 1..Len(ehist) :
              ehist[k].type = Classify(PrevBefore(k), ehist[k].cur)
        /\ emark.init = 0 =>
              \A k \in 1..Len(ehist) :
                  (k <= 6 /\ \A i \in 1..k : ehist[i].cur = <<0, 0, 1, 1, 0, 1>>[i])
                      => /\ ehist[k].type =
                              <<EDGE_NONE, EDGE_NONE, EDGE_RISING, EDGE_NONE,
                                EDGE_FALLING, EDGE_RISING>>[k]
                         /\ (k = 6 /\ Len(ehist) = 6 /\ emark.by = "edge_init") =>
                               /\ det.rise_count = U32(2)
                               /\ det.fall_count = U32(1)
                               /\ edge_get_rise_count(det) = U32(2)
                               /\ edge_get_fall_count(det) = U32(1)

\* C5 witness: edge_init(0), then the samples 0,0,1,1,0,1, the last through
\* edge_update, with no reset.
C5_Witness ==
    /\ unit = "edge_v2"
    /\ emark.init = 0
    /\ emark.by = "edge_init"
    /\ Len(ehist) = 6
    /\ \A i \in 1..6 : ehist[i].cur = <<0, 0, 1, 1, 0, 1>>[i]
    /\ ecall.op = "edge_update"
    /\ ecall.ret = EDGE_RISING

C7_EdgeBothIsOneUpdate ==
    (unit = "edge_v2" /\ ecall.op = "edge_both") =>
        LET r == edge_update(ecall.pre, ecall.in)
        IN /\ ecall.ret = (IF r.ret # EDGE_NONE THEN 1 ELSE 0)
           /\ ecall.ret = 1 <=> ecall.pre.prev # Normalized(ecall.in)
           /\ det = r.det
           /\ ecall.cbs = r.cbs
           /\ Val(det.rise_count) + Val(det.fall_count)
                 = Val(ecall.pre.rise_count) + Val(ecall.pre.fall_count)
                   + ecall.ret
           /\ Len(ecall.cbs) = (IF ecall.pre.on_edge # "NULL" THEN ecall.ret ELSE 0)

\* C7 witness: an edge_both call on a falling edge with a callback assigned.
C7_Witness ==
    /\ unit = "edge_v2"
    /\ ecall.op = "edge_both"
    /\ ecall.pre.prev = 1
    /\ ecall.in = 0
    /\ ecall.pre.on_edge = "fn"
    /\ ecall.ret = 1

\* C8: edge_reset sets rise_count and fall_count to 0 and leaves prev and
\* on_edge unchanged; after it both getters return 0, and the next edge_update
\* classifies its sample against the prev held before the reset, so an edge
\* straddling the reset is detected and counted once.
C8_ResetKeepsPrev ==
    unit = "edge_v2" =>
        /\ ecall.op = "edge_reset" =>
              /\ det.rise_count = U32(0)
              /\ det.fall_count = U32(0)
              /\ det.prev = ecall.pre.prev
              /\ det.on_edge = ecall.pre.on_edge
              /\ emark.prev = ecall.pre.prev
        /\ (emark.by = "edge_reset" /\ Len(ehist) = emark.at) =>
              /\ det.prev = emark.prev
              /\ edge_get_rise_count(det) = U32(0)
              /\ edge_get_fall_count(det) = U32(0)
              /\ ecall.op = "edge_get_rise_count" => ecall.ret = U32(0)
              /\ ecall.op = "edge_get_fall_count" => ecall.ret = U32(0)
        /\ (emark.by = "edge_reset" /\ Len(ehist) = emark.at + 1) =>
              LET t == Classify(emark.prev, ehist[Len(ehist)].cur)
              IN /\ LastType = t
                 /\ Val(det.rise_count) = (IF t = EDGE_RISING THEN 1 ELSE 0)
                 /\ Val(det.fall_count) = (IF t = EDGE_FALLING THEN 1 ELSE 0)

\* C8 witness: prev was 1 and the counters nonzero at an edge_reset, and the
\* first sample after it was 0: a Falling step counted once.
C8_Witness ==
    /\ unit = "edge_v2"
    /\ emark.by = "edge_reset"
    /\ emark.prev = 1
    /\ emark.at >= 3
    /\ Len(ehist) = emark.at + 1
    /\ ecall.op = "edge_update"
    /\ ecall.ret = EDGE_FALLING
    /\ Val(ecall.pre.rise_count) = 0
    /\ Val(det.fall_count) = 1

\* C9: on_edge, when present, is invoked exactly once during every edge_update
\* or edge_both call that classifies as Rising or Falling, with the
\* classification as its argument, and never on a None step nor by edge_init,
\* edge_reset or the getters; with on_edge absent the step is the same apart
\* from the missing invocation.
C9_CallbackOncePerEdge ==
    unit = "edge_v2" =>
        /\ IsSampleCall =>
              /\ ecall.cbs = (IF ecall.pre.on_edge # "NULL" /\ LastType # EDGE_NONE
                              THEN <<LastType>>
                              ELSE <<>>)
              /\ LastType = Classify(ecall.pre.prev, Normalized(ecall.in))
              /\ ecall.op = "edge_update" => ecall.ret = LastType
              /\ LET quiet == edge_update([ecall.pre EXCEPT !.on_edge = "NULL"],
                                          ecall.in)
                 IN /\ quiet.cbs = <<>>
                    /\ quiet.ret = LastType
                    /\ det = [quiet.det EXCEPT !.on_edge = ecall.pre.on_edge]
        /\ ~IsSampleCall => ecall.cbs = <<>>

\* C9 witness: an edge_update call on a falling edge that invoked the
\* callback with EDGE_FALLING.
C9_Witness ==
    /\ unit = "edge_v2"
    /\ ecall.op = "edge_update"
    /\ ecall.ret = EDGE_FALLING
    /\ ecall.cbs = <<EDGE_FALLING>>

(* ---------------------------- normalization --------------------------- *)
\* C10: two input sequences that agree on which samples are zero produce the
\* same return values, the same stored state (prev_input, stable_output, prev,
\* counters) and the same time_ref and on_edge invocations, for debounce_init
\* and debounce_update, edge_init, edge_update and edge_both, and the legacy
\* edge_rise, edge_fall and edge_both; the stored prev_input, stable_output and
\* prev are always 0 or 1.
C10_ZeroEquivalentInputsAgree ==
    /\ d.prev_input \in {0, 1}
    /\ d.stable_output \in {0, 1}
    /\ det.prev \in {0, 1}
    /\ leg.prev \in {0, 1}
    /\ tw.d = d
    /\ tw.det = det
    /\ tw.leg = leg
    /\ (IsDebounce /\ dcall.op # "none") =>
          /\ SameZero(tw.in, dcall.in)
          /\ tw.ret = dcall.ret
          /\ tw.tr = dcall.tr
          /\ d.prev_input = Normalized(dcall.in)
    /\ (unit = "edge_v2" /\ ecall.op # "none") =>
          /\ SameZero(tw.in, ecall.in)
          /\ tw.ret = ecall.ret
          /\ tw.cbs = ecall.cbs
          /\ ecall.op \in {"edge_init", "edge_update", "edge_both"} =>
                det.prev = Normalized(ecall.in)
    /\ (unit = "edge_legacy" /\ lcall.op # "none") =>
          /\ SameZero(tw.in, lcall.in)
          /\ tw.ret = lcall.ret
          /\ leg.prev = Normalized(lcall.in)

\* C10 witness: an edge_update call given 5 on one instance and 1 on the
\* other, both classifying it as a rising edge and invoking the callback.
C10_Witness ==
    /\ unit = "edge_v2"
    /\ ecall.op = "edge_update"
    /\ ecall.in = 5
    /\ tw.in = 1
    /\ ecall.ret = EDGE_RISING
    /\ tw.cbs = <<EDGE_RISING>>
    /\ Val(det.rise_count) = 2

(* --------------------------- invalid instance -------------------------- *)
\* C11: every operation called with a NULL state reference is a no-op with a
\* neutral return value: debounce_update returns 0, edge_update returns
\* EDGE_NONE, edge_both and both count getters return 0 (as do the legacy
\* edge_rise, edge_fall and edge_both), init and reset return without effect;
\* no predicate or callback is invoked and no instance changes.
C11_NullInstanceIsNoOp ==
    ncall.op # "none" =>
        /\ ncall.same
        /\ ncall.inv = <<>>
        /\ (IsDebounce /\ ncall.op = "debounce_update") => ncall.ret = 0
        /\ (unit = "edge_v2" /\ ncall.op = "edge_update") => ncall.ret = EDGE_NONE
        /\ (unit = "edge_v2" /\ ncall.op = "edge_both") => ncall.ret = 0
        /\ (unit = "edge_v2" /\ ncall.op \in {"edge_get_rise_count",
                                              "edge_get_fall_count"}) =>
              ncall.ret = U32(0)
        /\ (unit = "edge_legacy" /\ ncall.op \in {"edge_rise", "edge_fall",
                                                  "edge_both"}) =>
              ncall.ret = 0
        /\ ncall.op \in {"debounce_init", "edge_init", "edge_reset"} =>
              ncall.ret = "void"

\* C11 witness: debounce_update(NULL, 1) on the call after a change to 1 was
\* seen, with a time_ref function assigned: it returns 0 and the instance,
\* which a valid call would now confirm, is as before.
C11_Witness ==
    /\ unit = "debounce_v11"
    /\ ncall.op = "debounce_update"
    /\ d.time_ref = "fn"
    /\ d.prev_input = 1
    /\ d.stable_output = 0
    /\ ncall.ret = 0
    /\ ncall.same

(* ------------------------ idempotence of no-change --------------------- *)
\* the debounce_update calls j..m all had the normalized input v
InputHeld(j, m, v) == \A i \in j..m : dhist[i].cur = v

\* the samples j..m all had the normalized value v
SampleHeld(j, m, v) == \A i \in j..m : ehist[i].cur = v

\* C12: once the debounce output has stabilized (stable_output == prev_input
\* == v), any number of further debounce_update calls with normalized input v
\* leave the instance as it was and return v, whatever time_ref() returns; and
\* any number of further edge_update / edge_both calls with a sample whose
\* normalized value equals prev return EDGE_NONE / 0, invoke no callback and
\* leave rise_count, fall_count and prev unchanged.
C12_NoChangeIsIdempotent ==
    /\ (IsDebounce /\ dcall.op = "debounce_update"
          /\ dcall.pre.stable_output = dcall.pre.prev_input
          /\ Normalized(dcall.in) = dcall.pre.prev_input) =>
            /\ d = dcall.pre
            /\ dcall.ret = dcall.pre.stable_output
    /\ IsDebounce =>
          \A j \in 1..Len(dhist) : \A m \in j..Len(dhist) :
             (StableBefore(j) = PrevInputBefore(j)
                 /\ InputHeld(j, m, PrevInputBefore(j))) =>
                \A i \in j..m : dhist[i].ret = PrevInputBefore(j)
    /\ (IsSampleCall /\ Normalized(ecall.in) = ecall.pre.prev) =>
            /\ det = ecall.pre
            /\ ecall.ret = 0
            /\ ecall.cbs = <<>>
    /\ unit = "edge_v2" =>
          \A j \in 1..Len(ehist) : \A m \in j..Len(ehist) :
             SampleHeld(j, m, PrevBefore(j)) =>
                \A i \in j..m : ehist[i].type = EDGE_NONE

\* C12 witness: the output stabilized at 1 on the second call, and two more
\* calls with input 1 on which time_ref() returned 0 still returned 1.
C12_Witness ==
    /\ unit = "debounce_v11"
    /\ Len(dhist) = 4
    /\ dstart.stable_output = 0
    /\ dhist[2].cur = 1 /\ dhist[2].ret = 1
    /\ dhist[3].cur = 1 /\ dhist[3].tr = <<0>> /\ dhist[3].ret = 1
    /\ dhist[4].cur = 1 /\ dhist[4].tr = <<0>> /\ dhist[4].ret = 1
    /\ d.stable_output = 1 /\ d.prev_input = 1

(* --------------------- NULL time_ref: when a change shows -------------- *)
\* the last call was a v1.1 debounce_update on an instance without time_ref
\* whose normalized input differed from the stable output
NullRefChangeCall ==
    /\ unit = "debounce_v11"
    /\ dcall.op = "debounce_update"
    /\ dcall.pre.time_ref = "NULL"
    /\ Normalized(dcall.in) # dcall.pre.stable_output

RawChangeCall ==
    /\ IsDebounce
    /\ dcall.op = "debounce_update"
    /\ Normalized(dcall.in) # dcall.pre.prev_input

\* the unit's debounce_update applied to the instance the last call found, had
\* time_ref() returned tick
UpdateHad(tick) ==
    IF unit = "debounce_v11"
    THEN debounce_update(dcall.pre, dcall.in, tick)
    ELSE debounce_update_v10(dcall.pre, dcall.in, tick)

\* C14: on a debounce_update call whose normalized input differs from
\* prev_input, time_ref(), if present, is invoked at most once (exactly once,
\* and not at all when it is NULL), and whatever it returns the call stores
\* the new prev_input, leaves stable_output unchanged and returns the old
\* stable value (v1.1 and v1.0).
C14_ChangeStepIgnoresPredicate ==
    RawChangeCall =>
        /\ Len(dcall.tr) <= 1
        /\ Len(dcall.tr) = 1 <=> dcall.pre.time_ref # "NULL"
        /\ d = [dcall.pre EXCEPT !.prev_input = Normalized(dcall.in)]
        /\ dcall.ret = dcall.pre.stable_output
        /\ \A tick \in TimeRefReturns :
              /\ UpdateHad(tick).d = d
              /\ UpdateHad(tick).ret = dcall.ret

\* C14 witness: a v1.1 call saw the input change from 0 to 1, time_ref()
\* answered 1 on it, and the call still returned the stable output 0.
C14_Witness ==
    /\ unit = "debounce_v11"
    /\ RawChangeCall
    /\ dcall.pre.prev_input = 0
    /\ dcall.pre.stable_output = 0
    /\ dcall.tr = <<1>>
    /\ dcall.ret = 0
    /\ d.prev_input = 1 /\ d.stable_output = 0

(* --------------------------- counter overflow -------------------------- *)
\* counter values within WrapMargin increments of the wrap, and just past it
WrapCounters ==
    {[hi |-> HalfWord - 1, lo |-> HalfWord - 1 - k] : k \in 0..WrapMargin}
        \union {U32(0)}

\* A detector that has counted close to 2^32 edges since edge_init(p0): the
\* counters agree with prev as alternation leaves them (rise_count -
\* fall_count = prev - p0, modulo 2^32).  The samples that led here are not
\* part of ehist, which starts empty.
InitWrap ==
    /\ unit = "edge_v2"
    /\ \E p0 \in {0, 1}, p \in {0, 1}, rc \in WrapCounters, fc \in WrapCounters,
          cb \in Callbacks :
          /\ \/ p = p0 /\ rc = fc
             \/ p = 1 /\ p0 = 0 /\ rc = u32_inc(fc)
             \/ p = 0 /\ p0 = 1 /\ fc = u32_inc(rc)
          /\ det = [prev |-> p, rise_count |-> rc, fall_count |-> fc,
                    on_edge |-> cb]
          /\ emark = [by |-> "edge_init", at |-> 0, prev |-> p, init |-> p]
    /\ d = NoDebounce
    /\ dstart = d
    /\ leg = NoLegacy
    /\ tw = TwinInit(unit, "NULL", 0)
    /\ dcall = [op |-> "none", in |-> 0, pre |-> d, tr |-> <<>>, ret |-> 0]
    /\ ecall = [op |-> "none", in |-> 0, pre |-> det, ret |-> 0, cbs |-> <<>>]
    /\ lcall = [op |-> "none", in |-> 0, pre |-> leg, ret |-> 0]
    /\ dhist = <<>>
    /\ ehist = <<>>
    /\ lhist = <<>>
    /\ ncall = [op |-> "none", ret |-> 0, same |-> TRUE, inv |-> <<>>]
    /\ rcall = [op |-> "none", in |-> 0, plan |-> <<>>, pre |-> det, ret |-> 0,
                calls |-> <<>>]

\* the sampling loop of such a detector
NextWrap ==
    \/ EdgeUpdate
    \/ EdgeBoth
    \/ EdgeGetRiseCount
    \/ EdgeGetFallCount
    \/ AssignOnEdge

SpecWrap == InitWrap /\ [][NextWrap]_vars

\* the value the last sample call returned for an edge of the given type
ReturnedFor(type) == IF ecall.op = "edge_update" THEN type ELSE 1

\* the callback invocations of a step of the given type
InvokedFor(type) == IF ecall.pre.on_edge # "NULL" THEN <<type>> ELSE <<>>

\* c + 1 for a counter whose low half is not full
NextCount(c) == [hi |-> c.hi, lo |-> c.lo + 1]

\* C15: the counters wrap at 32 bits: a Rising step with rise_count ==
\* 2^32 - 1 leaves rise_count == 0, still returns Rising (1 from edge_both) and
\* still invokes the callback, with fall_count untouched and prev set to the
\* sample; the same for a Falling step and fall_count.  Below the wrap a step
\* adds one, so the counter goes on from 0 and does not saturate.
C15_CountersWrap ==
    IsSampleCall =>
        /\ (ecall.pre.prev = 0 /\ Normalized(ecall.in) = 1) =>
              /\ ecall.pre.rise_count = U32Max => det.rise_count = U32(0)
              /\ ecall.pre.rise_count.lo < HalfWord - 1 =>
                    det.rise_count = NextCount(ecall.pre.rise_count)
              /\ det.fall_count = ecall.pre.fall_count
              /\ ecall.ret = ReturnedFor(EDGE_RISING)
              /\ ecall.cbs = InvokedFor(EDGE_RISING)
        /\ (ecall.pre.prev = 1 /\ Normalized(ecall.in) = 0) =>
              /\ ecall.pre.fall_count = U32Max => det.fall_count = U32(0)
              /\ ecall.pre.fall_count.lo < HalfWord - 1 =>
                    det.fall_count = NextCount(ecall.pre.fall_count)
              /\ det.rise_count = ecall.pre.rise_count
              /\ ecall.ret = ReturnedFor(EDGE_FALLING)
              /\ ecall.cbs = InvokedFor(EDGE_FALLING)
        /\ det.prev = Normalized(ecall.in)
        /\ det.on_edge = ecall.pre.on_edge

\* C15 witness: edge_update on a rising edge with rise_count == 2^32 - 1
\* returned EDGE_RISING, invoked the callback and left rise_count == 0.
C15_Witness ==
    /\ ecall.op = "edge_update"
    /\ ecall.pre.rise_count = U32Max
    /\ ecall.ret = EDGE_RISING
    /\ ecall.cbs = <<EDGE_RISING>>
    /\ det.rise_count = U32(0)
    /\ det.fall_count = ecall.pre.fall_count
    /\ det.prev = 1

(* ------------------- legacy detector: one call per sample -------------- *)
\* the caller's loop so far called edge_rise and then edge_fall on every
\* sample: calls 1, 3, ... are edge_rise, calls 2, 4, ... are edge_fall with the
\* sample of the call before
RiseThenFallLoop ==
    \A k \in 1..Len(lhist) :
        IF k % 2 = 1
        THEN lhist[k].op = "edge_rise"
        ELSE lhist[k].op = "edge_fall" /\ lhist[k].cur = lhist[k - 1].cur

\* C16: legacy detector: edge_rise, edge_fall and edge_both each set prev to
\* the normalized sample whatever they return; so a call that follows another
\* call with the same sample returns 0, and in a loop that calls edge_rise and
\* then edge_fall on every sample no edge_fall call returns 1.
C16_LegacySecondCallSeesNoEdge ==
    unit = "edge_legacy" =>
        /\ lcall.op \in {"edge_rise", "edge_fall", "edge_both"} =>
              leg.prev = Normalized(lcall.in)
        /\ \A k \in 1..Len(lhist) :
              /\ k > 1 => lhist[k].pre = lhist[k - 1].cur
              /\ (k > 1 /\ lhist[k].cur = lhist[k - 1].cur) => lhist[k].ret = 0
        /\ RiseThenFallLoop =>
              \A k \in 1..Len(lhist) :
                  lhist[k].op = "edge_fall" => lhist[k].ret = 0

\* C16 witness: after edge_init(1) the loop ran on the samples 1 and 0; the
\* sample fell, edge_rise took the new prev, and both edge_fall calls
\* returned 0.
C16_Witness ==
    /\ unit = "edge_legacy"
    /\ RiseThenFallLoop
    /\ Len(lhist) = 4
    /\ lhist[1].pre = 1
    /\ lhist[1].cur = 1
    /\ lhist[3].cur = 0 /\ lhist[3].pre = 1 /\ lhist[3].ret = 0
    /\ lhist[4].pre = 0 /\ lhist[4].ret = 0
    /\ lhist[2].ret = 0

(* ----------------------- acceptance, once ready ------------------------ *)
\* on the k-th debounce_update call the input was unchanged and the instance
\* counted as ready: time_ref() returned nonzero, or there is no time_ref
ReadyOn(k) ==
    /\ dhist[k].cur = PrevInputBefore(k)
    /\ \/ d.time_ref = "NULL"
       \/ dhist[k].tr # <<>> /\ dhist[k].tr[1] # 0

\* C17: v1.1 debounce: a call whose input is unchanged and on which time_ref()
\* returns nonzero (or time_ref is NULL) makes the input the stable output; so
\* when the normalized input stays at v and one such call k happens, call k
\* and every later call return v for as long as the input stays v, also when
\* time_ref() returns 0 again on the later calls.
C17_AcceptedOnceReady ==
    unit = "debounce_v11" =>
        /\ \A k \in 1..Len(dhist) : \A m \in k..Len(dhist) :
              (ReadyOn(k) /\ InputHeld(k, m, dhist[k].cur)) =>
                  \A i \in k..m : dhist[i].ret = dhist[k].cur
        /\ \A k \in 1..Len(dhist) :
              (ReadyOn(k) /\ InputHeld(k, Len(dhist), dhist[k].cur)) =>
                  d.stable_output = dhist[k].cur

\* C17 witness: the input went to 1 and stayed; time_ref() returned 0 on the
\* second call (output still 0), 1 on the third (output 1) and 0 on the fourth,
\* which still returned 1.
C17_Witness ==
    /\ unit = "debounce_v11"
    /\ dstart.stable_output = 0
    /\ Len(dhist) = 4
    /\ InputHeld(1, 4, 1)
    /\ dhist[2].tr = <<0>> /\ dhist[2].ret = 0
    /\ dhist[3].tr = <<1>> /\ dhist[3].ret = 1
    /\ dhist[4].tr = <<0>> /\ dhist[4].ret = 1

(* ---------------------- rising and falling alternate ------------------- *)
\* between the samples i and j some sample classified as t
Between(i, j, t) == \E k \in (i + 1)..(j - 1) : ehist[k].type = t

\* C18: v2 detector, counters below the wrap and fields written only by the
\* library: since the last edge_init or edge_reset, rise_count - fall_count
\* equals prev minus the value prev had at that init or reset, so the counters
\* differ by at most 1; and two EDGE_RISING results never occur without an
\* EDGE_FALLING result between them (nor two EDGE_FALLING without an
\* EDGE_RISING).
C18_EdgesAlternate ==
    unit = "edge_v2" =>
        /\ Val(det.rise_count) - Val(det.fall_count) = det.prev - emark.prev
        /\ Val(det.rise_count) - Val(det.fall_count) \in {-1, 0, 1}
        /\ \A i \in 1..Len(ehist) : \A j \in (i + 1)..Len(ehist) :
              /\ (ehist[i].type = EDGE_RISING /\ ehist[j].type = EDGE_RISING)
                    => Between(i, j, EDGE_FALLING)
              /\ (ehist[i].type = EDGE_FALLING /\ ehist[j].type = EDGE_FALLING)
                    => Between(i, j, EDGE_RISING)

\* C18 witness: edge_reset found prev == 1; since then the samples fell, rose
\* and fell: fall_count is 2, rise_count is 1 and prev is 0.
C18_Witness ==
    /\ unit = "edge_v2"
    /\ emark.by = "edge_reset"
    /\ emark.prev = 1
    /\ Val(det.fall_count) = 2
    /\ Val(det.rise_count) = 1
    /\ det.prev = 0
    /\ LastType = EDGE_FALLING

(* ------------------- what the on_edge callback finds ------------------- *)
\* the counter that counts edges of the given type
CounterOf(dt, type) ==
    IF type = EDGE_RISING THEN dt.rise_count ELSE dt.fall_count

\* the counter that counts the edges of the other direction
OtherCounterOf(dt, type) ==
    IF type = EDGE_RISING THEN dt.fall_count ELSE dt.rise_count

\* C19: when edge_update invokes on_edge, the matching counter is already
\* incremented and prev still holds the value from before the transition
\* (prev is written after the callback returns); so a callback that calls
\* edge_update on the same instance with the same sample gets the same edge
\* again, not EDGE_NONE, is invoked again for it, and the counter is
\* incremented a second time.
C19_CallbackSeesOldPrev ==
    (rcall.op = "edge_update" /\ rcall.calls # <<>>) =>
        LET first == rcall.calls[1]
            cur   == Normalized(rcall.in)
        IN /\ rcall.ret # EDGE_NONE
           /\ first.type = rcall.ret
           /\ first.seen.prev = rcall.pre.prev
           /\ first.seen.prev # cur
           /\ Val(CounterOf(first.seen, rcall.ret)) =
                 Val(CounterOf(rcall.pre, rcall.ret)) + 1
           /\ OtherCounterOf(first.seen, rcall.ret) =
                 OtherCounterOf(rcall.pre, rcall.ret)
           /\ det.prev = cur
           /\ (first.reentered /\ Normalized(rcall.plan[1]) = cur) =>
                 /\ first.inner = rcall.ret
                 /\ Len(rcall.calls) >= 2
                 /\ rcall.calls[2].type = rcall.ret
                 /\ rcall.calls[2].seen.prev = rcall.pre.prev
                 /\ Val(CounterOf(rcall.calls[2].seen, rcall.ret)) =
                       Val(CounterOf(rcall.pre, rcall.ret)) + 2
                 /\ Val(CounterOf(det, rcall.ret)) >=
                       Val(CounterOf(rcall.pre, rcall.ret)) + 2

\* C19 witness: on a rising edge the callback called edge_update with the
\* sample 1 again: the inner call returned EDGE_RISING and one rising edge
\* was counted twice.
C19_Witness ==
    /\ rcall.op = "edge_update"
    /\ rcall.ret = EDGE_RISING
    /\ rcall.plan = <<1>>
    /\ Len(rcall.calls) = 2
    /\ rcall.calls[1].inner = EDGE_RISING
    /\ rcall.calls[1].seen.prev = 0
    /\ Val(det.rise_count) = Val(rcall.pre.rise_count) + 2
    /\ det.prev = 1

(* -------------------- v1.0 without a time_ref function ----------------- *)
\* the normalized input of the latest debounce_update call, 0 after init
LatestInput == IF dhist = <<>> THEN 0 ELSE dhist[Len(dhist)].cur

\* C20: v1.0 debounce after debounce_init(d, NULL): stable_output is 0 and
\* stays 0, every debounce_update call returns 0 and calls no function, and
\* prev_input follows the normalized input.  v1.1 differs: with a NULL time_ref
\* its debounce_update, on the instance a v1.0 call found holding the input,
\* returns the input.
C20_V10NullRefNeverAccepts ==
    (unit = "debounce_v10" /\ d.time_ref = "NULL") =>
        /\ dstart.stable_output = 0
        /\ d.stable_output = 0
        /\ d.prev_input = LatestInput
        /\ \A k \in 1..Len(dhist) : dhist[k].ret = 0 /\ dhist[k].tr = <<>>
        /\ (dcall.op = "debounce_update"
               /\ Normalized(dcall.in) = dcall.pre.prev_input) =>
              /\ dcall.ret = 0
              /\ \A tick \in TimeRefReturns :
                    debounce_update(dcall.pre, dcall.in, tick).ret =
                        Normalized(dcall.in)

\* C20 witness: v1.0 without time_ref; four calls with input 1 all returned 0
\* while prev_input became 1.
C20_Witness ==
    /\ unit = "debounce_v10"
    /\ d.time_ref = "NULL"
    /\ Len(dhist) = 4
    /\ \A k \in 1..4 : dhist[k].cur = 1 /\ dhist[k].ret = 0
    /\ d.prev_input = 1
    /\ d.stable_output = 0

====
